---------------------------- MODULE Spec2Model ----------------------------
(***************************************************************************)
(* Model of argos/repo/rtiplugins/zarrio.py: the Repository Tree Items     *)
(* (RTIs) that adapt Zarr arrays and groups to the Argos repository tree.  *)
(*                                                                         *)
(*   attrsToDict, zarrArrayUnit, zarrArrayMissingValue   pure helpers      *)
(*   ZarrGroupRti._openResources / _closeResources        store lifecycle  *)
(*   ZarrGroupRti._fetchAllChildren                       child listing    *)
(*                                                                         *)
(* Python values are records [t, n, s] (type name, numeric payload, string *)
(* payload); an operation that can raise returns a record with a `raised`  *)
(* flag, and try/except blocks are modelled by what they let through.      *)
(***************************************************************************)
EXTENDS Integers, Sequences, FiniteSets, TLC

VARIABLES
    attrs,      \* the attributes object handed to attrsToDict
    zarrArray,  \* the array handed to zarrArrayUnit / zarrArrayMissingValue
    self,       \* the ZarrGroupRti under test
    ctorGroup,  \* the zarrGroup argument self was constructed with
    prev,       \* self as it was when the last _openResources/_closeResources began
    lastCall,   \* "none", "open" or "close": last resource call made on self
    opens,      \* number of zarr.open calls made since the last _closeResources
    fetched,    \* TRUE when ret holds the children fetched from the current self
    called,     \* name of the function whose result ret holds ("none" before)
    ret         \* result of the last call: [raised, msg, value]

vars == <<attrs, zarrArray, self, ctorGroup, prev, lastCall, opens, fetched, called, ret>>

(***************************************************************************)
(* Bounds of the model.                                                    *)
(***************************************************************************)
MaxYield == 3   \* keys an attributes object yields before it ends or raises
MaxKeys  == 3   \* members of a Zarr group
MaxOpens == 3   \* cap on the zarr.open counter

(***************************************************************************)
(* Python values.                                                          *)
(***************************************************************************)
PyNone     == [t |-> "NoneType", n |-> 0, s |-> ""]
PyInt(i)   == [t |-> "int", n |-> i, s |-> ""]
PyBool(b)  == [t |-> "bool", n |-> IF b THEN 1 ELSE 0, s |-> ""]
PyString(x) == [t |-> "str", n |-> 0, s |-> x]

Digits == <<"0", "1", "2", "3", "4", "5", "6", "7", "8", "9">>

\* str(int) for one-digit integers
IntStr(i) == IF i < 0 THEN "-" \o Digits[1 - i] ELSE Digits[i + 1]

\* Python's str(v)
PyStr(v) ==
    CASE v.t = "NoneType" -> "None"
      [] v.t = "int"      -> IntStr(v.n)
      [] v.t = "bool"     -> IF v.n = 1 THEN "True" ELSE "False"
      [] v.t = "str"      -> v.s

\* Python's v != 0 : numbers (bool included) compare by value, the rest differ
PyNeZero(v) == IF v.t \in {"int", "bool"} THEN v.n # 0 ELSE TRUE

\* outcomes of an operation that may raise
Ok(v)    == [raised |-> FALSE, msg |-> "", value |-> v]
Raise(m) == [raised |-> TRUE, msg |-> m, value |-> PyNone]

Range(seq) == {seq[i] : i \in 1..Len(seq)}

\* partial mappings from names to values (a Zarr attributes object)
Mappings(names, values) == UNION {[D -> values] : D \in SUBSET names}

\* result[key] = v
DictSet(result, key, v) ==
    [k \in DOMAIN result \cup {key} |-> IF k = key THEN v ELSE result[k]]

EmptyDict == [k \in {} |-> PyNone]

(***************************************************************************)
(* attrsToDict (zarrio.py 40-58).  An attributes object is                 *)
(*   yielded    the keys attrs.keys() yields, in order                     *)
(*   iterRaises whether keys() / its iteration raises after those keys     *)
(*   read[k]    the outcome of attrs[k]                                    *)
(***************************************************************************)
AttrNames == {"units", "long_name", "_ARRAY_DIMENSIONS"}

AttrReads == {Ok(PyInt(9)), Ok(PyString("m")), Raise("unreadable")}

AttrObjects ==
    [yielded    : UNION {[1..n -> AttrNames] : n \in 0..MaxYield},
     iterRaises : BOOLEAN,
     read       : [AttrNames -> AttrReads]]

\* mutant: no inner try/except, a failing read propagates
AttrsTryRead_noCatch(a, key, result) ==
    LET rd == a.read[key]
    IN  IF rd.raised THEN [raised |-> TRUE, msg |-> rd.msg, value |-> result]
        ELSE Ok(DictSet(result, key, rd.value))

\* the inner try/except of the loop body (lines 51-55)
AttrsTryRead(a, key, result) ==
    LET rd == a.read[key]
    IN  IF rd.raised
        THEN Ok(DictSet(result, key, PyString(rd.msg)))   \* result[key] = str(ex)
        ELSE Ok(DictSet(result, key, rd.value))           \* result[key] = attrs[key]

\* for key in attrs.keys(): ...  (lines 50-55); value is the dict built so far
RECURSIVE AttrsLoop(_, _, _)
AttrsLoop(a, i, result) ==
    IF i > Len(a.yielded)
    THEN IF a.iterRaises
         THEN [raised |-> TRUE, msg |-> "iteration failed", value |-> result]
         ELSE Ok(result)
    ELSE LET r == AttrsTryRead(a, a.yielded[i], result)
         IN  IF r.raised THEN r ELSE AttrsLoop(a, i + 1, r.value)

\* the outer try/except Exception swallows whatever the loop raised (lines 49-58)
attrsToDict(a) == Ok(AttrsLoop(a, 1, EmptyDict).value)

(***************************************************************************)
(* zarrArrayUnit and zarrArrayMissingValue (zarrio.py 61-96).  An array is *)
(*   hasFill     hasattr(zarrArray, 'fill_value')                          *)
(*   fill_value  its value when present                                    *)
(*   attrs       mapping of attribute names to values                      *)
(***************************************************************************)
UnitKeys == <<"unit", "units", "Unit", "Units", "UNIT", "UNITS">>

MissingKeys == <<"missing_value", "MissingValue", "missingValue",
                 "FillValue", "_FillValue", "fill_value">>

\* for key in keys: if key in attrs: return f(attrs[key]);  0 when none is found
RECURSIVE FirstKeyIn(_, _, _)
FirstKeyIn(keys, a, i) ==
    IF i > Len(keys) THEN 0
    ELSE IF keys[i] \in DOMAIN a THEN i
    ELSE FirstKeyIn(keys, a, i + 1)

\* mutant: returns the attribute itself, without str()
zarrArrayUnit_noStr(arr) ==
    LET i == FirstKeyIn(UnitKeys, arr.attrs, 1)
    IN  IF i = 0 THEN PyString("") ELSE arr.attrs[UnitKeys[i]]

zarrArrayUnit(arr) ==
    LET i == FirstKeyIn(UnitKeys, arr.attrs, 1)
    IN  IF i = 0 THEN PyString("") ELSE PyString(PyStr(arr.attrs[UnitKeys[i]]))

\* mutant: does not skip a fill_value of 0
zarrArrayMissingValue_keepZero(arr) ==
    IF arr.hasFill /\ arr.fill_value # PyNone
    THEN arr.fill_value
    ELSE LET i == FirstKeyIn(MissingKeys, arr.attrs, 1)
         IN  IF i = 0 THEN PyNone ELSE arr.attrs[MissingKeys[i]]

zarrArrayMissingValue(arr) ==
    IF arr.hasFill /\ arr.fill_value # PyNone /\ PyNeZero(arr.fill_value)
    THEN arr.fill_value
    ELSE LET i == FirstKeyIn(MissingKeys, arr.attrs, 1)
         IN  IF i = 0 THEN PyNone ELSE arr.attrs[MissingKeys[i]]

UnitValues == {PyNone, PyString(""), PyString("m"), PyInt(9)}
FillValues == {PyNone, PyInt(0), PyBool(FALSE), PyInt(-1), PyString("nan")}
MissingValues == {PyNone, PyInt(0), PyInt(-1)}

UnitArrays ==
    [hasFill : {FALSE}, fill_value : {PyNone},
     attrs : Mappings(Range(UnitKeys), UnitValues)]

MissingArrays ==
    [hasFill : {TRUE}, fill_value : FillValues,
     attrs : Mappings(Range(MissingKeys), MissingValues)]
    \cup
    [hasFill : {FALSE}, fill_value : {PyNone},
     attrs : Mappings(Range(MissingKeys), MissingValues)]

(***************************************************************************)
(* Zarr groups.  A group handle is                                         *)
(*   origin     "ctor" (handed to the constructor) or "zarr.open"          *)
(*   mode       the mode the store was opened with                         *)
(*   keysRaise  whether group.keys() raises                                *)
(*   listing    the keys in the order the store lists them                 *)
(*   items      per key: whether group[key] raises, the type of the item,  *)
(*              and whether reading the dtype of an array raises           *)
(* NoGroup stands for None.                                                *)
(***************************************************************************)
\* the member names used, in Python's ascending str order
KeysAscending == <<"T", "lat", "lon", "t">>

Keys == Range(KeysAscending)

Rank(k) == CHOOSE i \in 1..Len(KeysAscending) : KeysAscending[i] = k

\* Python's a < b on these names
StrLess(a, b) == Rank(a) < Rank(b)

ArrayItem      == [get |-> "ok", type |-> "Array", dtype |-> "ok"]
BadArrayItem   == [get |-> "ok", type |-> "Array", dtype |-> "raises"]
GroupItem      == [get |-> "ok", type |-> "Group", dtype |-> "ok"]
OtherItem      == [get |-> "ok", type |-> "Other", dtype |-> "ok"]
UnreadableItem == [get |-> "raises", type |-> "Other", dtype |-> "ok"]

Items == {ArrayItem, BadArrayItem, GroupItem, OtherItem, UnreadableItem}

NoGroup == [origin |-> "None", mode |-> "", keysRaise |-> FALSE,
            listing |-> <<>>, items |-> <<>>]

\* sequences of distinct keys, at most MaxKeys long
Listings ==
    {l \in UNION {[1..n -> Keys] : n \in 0..MaxKeys} :
        \A i, j \in 1..Len(l) : i # j => l[i] # l[j]}

GroupsOver(listings, items) ==
    UNION {[origin : {"ctor"}, mode : {"r"}, keysRaise : BOOLEAN,
            listing : {l}, items : [Range(l) -> items]] : l \in listings}

Groups == GroupsOver(Listings, Items)

\* os.path.exists(fileName)
ExistingPaths == {"data.zarr"}
Paths == {"data.zarr", "gone.zarr"}

\* what is stored under the existing path
StoreRoot == [origin |-> "zarr.open", mode |-> "", keysRaise |-> FALSE,
              listing |-> <<"lon", "T">>,
              items |-> [k \in {"lon", "T"} |-> IF k = "T" THEN ArrayItem ELSE GroupItem]]

\* zarr.open(path, mode=...)
ZarrOpen(path, mode) == [StoreRoot EXCEPT !.mode = mode]

ICON_COLOR_UNDEF == "undef"
ICON_COLOR_ZARR == "#E377C2"
IconColors == {ICON_COLOR_UNDEF, ICON_COLOR_ZARR}

(***************************************************************************)
(* Constructors (zarrio.py 104-119, 236-255, 370-383).                     *)
(***************************************************************************)
\* ZarrArrayRti(zarrArray, nodeName, fileName, iconColor); reading
\* zarrArray.dtype.names may raise
ZarrArrayRti(item, nodeName, fileName, iconColor) ==
    IF item.dtype = "raises" THEN Raise("dtype")
    ELSE Ok([cls |-> "ZarrArrayRti", _zarrArray |-> item, nodeName |-> nodeName,
             _fileName |-> fileName, iconColor |-> iconColor])

ZarrGroupRti(zarrGroup, nodeName, fileName, iconColor, isRoot) ==
    Ok([cls |-> "ZarrGroupRti", _zarrGroup |-> zarrGroup, nodeName |-> nodeName,
        _fileName |-> fileName, iconColor |-> iconColor, _isRoot |-> isRoot])

ZarrFileRti(nodeName, fileName, iconColor) ==
    Ok([ZarrGroupRti(NoGroup, nodeName, fileName, iconColor, TRUE).value
            EXCEPT !.cls = "ZarrFileRti"])

(***************************************************************************)
(* ZarrGroupRti._openResources / _closeResources (zarrio.py 290-314).      *)
(* The result carries the RTI afterwards and whether zarr.open was called. *)
(***************************************************************************)
\* mutant: reopens the store although a group is already held
openResources_noNoneTest(s) ==
    IF s._isRoot
    THEN IF s._fileName \notin ExistingPaths
         THEN [raised |-> TRUE, msg |-> "OSError", self |-> s, opened |-> FALSE]
         ELSE [raised |-> FALSE, msg |-> "", opened |-> TRUE,
               self |-> [s EXCEPT !._zarrGroup = ZarrOpen(s._fileName, "r")]]
    ELSE [raised |-> FALSE, msg |-> "", self |-> s, opened |-> FALSE]

openResources(s) ==
    IF s._isRoot /\ s._zarrGroup = NoGroup
    THEN IF s._fileName \notin ExistingPaths
         THEN [raised |-> TRUE, msg |-> "OSError", self |-> s, opened |-> FALSE]
         ELSE [raised |-> FALSE, msg |-> "", opened |-> TRUE,
               self |-> [s EXCEPT !._zarrGroup = ZarrOpen(s._fileName, "r")]]
    ELSE [raised |-> FALSE, msg |-> "", self |-> s, opened |-> FALSE]

\* line 314 is outside the `if self._isRoot:` block, which only logs
closeResources(s) == [s EXCEPT !._zarrGroup = NoGroup]

(***************************************************************************)
(* ZarrGroupRti._fetchAllChildren (zarrio.py 316-360).                     *)
(***************************************************************************)
\* mutant: keeps the order in which the store lists the keys
sorted_asListed(seq) == seq

\* sorted(seq): insertion of seq[n] into the sorted prefix
RECURSIVE sorted(_)
sorted(seq) ==
    IF Len(seq) <= 1 THEN seq
    ELSE LET x    == seq[Len(seq)]
             rest == sorted(SubSeq(seq, 1, Len(seq) - 1))
             less == SelectSeq(rest, LAMBDA y : StrLess(y, x))
             more == SelectSeq(rest, LAMBDA y : ~StrLess(y, x))
         IN  less \o <<x>> \o more

\* self._zarrGroup.keys()
GroupKeys(g) == IF g.keysRaise THEN Raise("keys") ELSE Ok(g.listing)

\* self._zarrGroup[key]
GetItem(g, key) ==
    IF g.items[key].get = "raises" THEN Raise("KeyError") ELSE Ok(g.items[key])

\* the body of the inner try, lines 330-352: the new childItems, or what it raises
FetchItem(s, key, childItems) ==
    LET item == GetItem(s._zarrGroup, key)
    IN  IF item.raised THEN [raised |-> TRUE, msg |-> item.msg, value |-> childItems]
        ELSE IF item.value.type = "Array"
        THEN LET child == ZarrArrayRti(item.value, key, s._fileName, s.iconColor)
             IN  IF child.raised
                 THEN [raised |-> TRUE, msg |-> child.msg, value |-> childItems]
                 ELSE Ok(Append(childItems, child.value))
        ELSE IF item.value.type = "Group"
        THEN LET child == ZarrGroupRti(item.value, key, s._fileName, s.iconColor, FALSE)
             IN  Ok(Append(childItems, child.value))
        ELSE Ok(childItems)    \* unknown item type: continue

\* mutant: no inner try/except, the failure of one item propagates
FetchTryItem_noCatch(s, key, childItems) == FetchItem(s, key, childItems)

\* inner try/except Exception, lines 329-355: a failure is logged, the key skipped
FetchTryItem(s, key, childItems) ==
    LET r == FetchItem(s, key, childItems)
    IN  IF r.raised THEN Ok(childItems) ELSE r

\* for key in sorted(...): ..., lines 328-355
RECURSIVE FetchLoop(_, _, _, _)
FetchLoop(s, keys, i, childItems) ==
    IF i > Len(keys) THEN Ok(childItems)
    ELSE LET r == FetchTryItem(s, keys[i], childItems)
         IN  IF r.raised THEN r ELSE FetchLoop(s, keys, i + 1, r.value)

\* the outer try/except Exception (lines 326-358) swallows what the listing or
\* the loop raised; childItems as built so far is returned
fetchAllChildren(s) ==
    IF s._zarrGroup = NoGroup THEN Ok(<<>>)
    ELSE LET ks == GroupKeys(s._zarrGroup)
         IN  IF ks.raised THEN Ok(<<>>)
             ELSE Ok(FetchLoop(s, sorted(ks.value), 1, <<>>).value)

(***************************************************************************)
(* Initial states: the objects as constructed, before any call.            *)
(***************************************************************************)
IdleAttrs == [yielded |-> <<>>, iterRaises |-> FALSE,
              read |-> [k \in AttrNames |-> Ok(PyInt(9))]]

IdleArray == [hasFill |-> FALSE, fill_value |-> PyNone, attrs |-> EmptyDict]

IdleSelf == ZarrFileRti("gone.zarr", "gone.zarr", ICON_COLOR_UNDEF).value

\* groups of the lifecycle specification: readable arrays and sub-groups
ResGroups ==
    GroupsOver({SubSeq(KeysAscending, 1, n) : n \in 0..MaxKeys}, {ArrayItem, GroupItem})

InitAttrs ==
    /\ attrs \in AttrObjects
    /\ zarrArray = IdleArray
    /\ self = IdleSelf /\ ctorGroup = NoGroup /\ prev = IdleSelf
    /\ lastCall = "none" /\ opens = 0 /\ fetched = FALSE
    /\ called = "none" /\ ret = Ok(EmptyDict)

InitArray ==
    /\ attrs = IdleAttrs
    /\ zarrArray \in UnitArrays \cup MissingArrays
    /\ self = IdleSelf /\ ctorGroup = NoGroup /\ prev = IdleSelf
    /\ lastCall = "none" /\ opens = 0 /\ fetched = FALSE
    /\ called = "none" /\ ret = Ok(PyNone)

InitFetch ==
    /\ attrs = IdleAttrs
    /\ zarrArray = IdleArray
    /\ ctorGroup \in Groups \cup {NoGroup}
    /\ \E f \in Paths, c \in IconColors :
           self = ZarrGroupRti(ctorGroup, "grp", f, c, FALSE).value
    /\ prev = self
    /\ lastCall = "none" /\ opens = 0 /\ fetched = FALSE
    /\ called = "none" /\ ret = Ok(<<>>)

\* a ZarrFileRti, or a ZarrGroupRti built with or without a group
Init ==
    /\ attrs = IdleAttrs
    /\ zarrArray = IdleArray
    /\ ctorGroup \in {g \in ResGroups : ~g.keysRaise} \cup {NoGroup}
    /\ \E f \in Paths, isRoot \in BOOLEAN :
           self = IF isRoot /\ ctorGroup = NoGroup
                  THEN ZarrFileRti(f, f, ICON_COLOR_ZARR).value
                  ELSE ZarrGroupRti(ctorGroup, "grp", f, ICON_COLOR_ZARR, isRoot).value
    /\ prev = self
    /\ lastCall = "none" /\ opens = 0 /\ fetched = FALSE
    /\ called = "none" /\ ret = Ok(<<>>)

(***************************************************************************)
(* Actions: one per call.                                                  *)
(***************************************************************************)
CallAttrsToDict ==
    /\ ret' = attrsToDict(attrs)
    /\ called' = "attrsToDict"
    /\ UNCHANGED <<attrs, zarrArray, self, ctorGroup, prev, lastCall, opens, fetched>>

CallZarrArrayUnit ==
    /\ ret' = Ok(zarrArrayUnit(zarrArray))
    /\ called' = "zarrArrayUnit"
    /\ UNCHANGED <<attrs, zarrArray, self, ctorGroup, prev, lastCall, opens, fetched>>

CallZarrArrayMissingValue ==
    /\ ret' = Ok(zarrArrayMissingValue(zarrArray))
    /\ called' = "zarrArrayMissingValue"
    /\ UNCHANGED <<attrs, zarrArray, self, ctorGroup, prev, lastCall, opens, fetched>>

\* the guard only caps the counter: the code never reaches it (opens <= 1)
OpenResources ==
    /\ opens < MaxOpens
    /\ LET r == openResources(self)
       IN  /\ self' = r.self
           /\ ret' = [raised |-> r.raised, msg |-> r.msg, value |-> r.opened]
           /\ opens' = IF r.opened THEN opens + 1 ELSE opens
    /\ prev' = self
    /\ lastCall' = "open"
    /\ called' = "_openResources"
    /\ fetched' = FALSE
    /\ UNCHANGED <<attrs, zarrArray, ctorGroup>>

CloseResources ==
    /\ self' = closeResources(self)
    /\ ret' = Ok(FALSE)
    /\ opens' = 0
    /\ prev' = self
    /\ lastCall' = "close"
    /\ called' = "_closeResources"
    /\ fetched' = FALSE
    /\ UNCHANGED <<attrs, zarrArray, ctorGroup>>

FetchAllChildren ==
    /\ ret' = fetchAllChildren(self)
    /\ called' = "_fetchAllChildren"
    /\ fetched' = TRUE
    /\ UNCHANGED <<attrs, zarrArray, self, ctorGroup, prev, lastCall, opens>>

NextAttrs == CallAttrsToDict
NextArray == CallZarrArrayUnit \/ CallZarrArrayMissingValue
NextFetch == FetchAllChildren
Next == OpenResources \/ CloseResources \/ FetchAllChildren

SpecAttrs == InitAttrs /\ [][NextAttrs]_vars
SpecArray == InitArray /\ [][NextArray]_vars
SpecFetch == InitFetch /\ [][NextFetch]_vars
Spec == Init /\ [][Next]_vars

(***************************************************************************)
(* Properties.                                                             *)
(***************************************************************************)

\* C1: attrsToDict never raises; the result holds exactly one entry per key
\* yielded by attrs.keys(), whose value is attrs[key] when that read succeeds
\* and str(exception) when it raises; a failing read does not stop the
\* remaining keys; when the iteration raises, the entries collected so far
\* (none when keys() raised at once) are returned.
C1_AttrsToDict ==
    called = "attrsToDict" =>
        /\ ~ret.raised
        /\ DOMAIN ret.value = Range(attrs.yielded)
        /\ \A k \in Range(attrs.yielded) :
               ret.value[k] = IF attrs.read[k].raised
                              THEN PyString(attrs.read[k].msg)
                              ELSE attrs.read[k].value

\* a failing read is followed by a successful one, and then the iteration raises
C1_Witness ==
    /\ called = "attrsToDict"
    /\ attrs.iterRaises
    /\ Len(attrs.yielded) = 2
    /\ attrs.yielded[1] # attrs.yielded[2]
    /\ attrs.read[attrs.yielded[1]].raised
    /\ ~attrs.read[attrs.yielded[2]].raised
    /\ ret.value[attrs.yielded[1]] = PyString("unreadable")
    /\ ret.value[attrs.yielded[2]] = attrs.read[attrs.yielded[2]].value

\* a key of group g that yields a child: its item can be read, is an array or
\* a group, and the child can be constructed
YieldsChild(g, k) ==
    /\ g.items[k].get = "ok"
    /\ \/ g.items[k].type = "Array" /\ g.items[k].dtype = "ok"
       \/ g.items[k].type = "Group"

NodeNames(children) == {children[i].nodeName : i \in 1..Len(children)}

\* C2: _fetchAllChildren never propagates an exception; keys whose item cannot
\* be read, whose child cannot be constructed, or whose item is neither array
\* nor group are skipped while every other key still yields its child; the
\* result is empty when listing the keys raises or the group reference is None.
C2_FetchNeverRaises ==
    called = "_fetchAllChildren" =>
        LET g == self._zarrGroup
        IN  /\ ~ret.raised
            /\ g = NoGroup => ret.value = <<>>
            /\ (g # NoGroup /\ g.keysRaise) => ret.value = <<>>
            /\ (g # NoGroup /\ ~g.keysRaise) =>
                   /\ NodeNames(ret.value) = {k \in Range(g.listing) : YieldsChild(g, k)}
                   /\ Len(ret.value) = Cardinality(NodeNames(ret.value))

\* an unreadable key and an unknown item precede, in sorted order, a key that
\* still yields its child
C2_Witness ==
    /\ called = "_fetchAllChildren"
    /\ self._zarrGroup # NoGroup
    /\ ~self._zarrGroup.keysRaise
    /\ Range(self._zarrGroup.listing) = {"T", "lat", "t"}
    /\ self._zarrGroup.items["T"] = UnreadableItem
    /\ self._zarrGroup.items["lat"] = OtherItem
    /\ self._zarrGroup.items["t"] = ArrayItem
    /\ Len(ret.value) = 1
    /\ ret.value[1].nodeName = "t"

AllReadable(g) ==
    /\ g # NoGroup
    /\ ~g.keysRaise
    /\ \A k \in Range(g.listing) : g.items[k].get = "ok" /\ g.items[k].dtype = "ok"

\* C3: for a group whose keys are all readable, _fetchAllChildren returns exactly
\* one child per key that is an array or a group, in ascending order of the keys
\* whatever the listing order: ZarrArrayRti for an array, non-root ZarrGroupRti
\* for a group, named after the key, with the parent's fileName and iconColor.
C3_FetchSortedChildren ==
    (called = "_fetchAllChildren" /\ AllReadable(self._zarrGroup)) =>
        LET g == self._zarrGroup
            children == ret.value
        IN  /\ NodeNames(children) =
                   {k \in Range(g.listing) : g.items[k].type \in {"Array", "Group"}}
            /\ \A i, j \in 1..Len(children) :
                   i < j => StrLess(children[i].nodeName, children[j].nodeName)
            /\ \A i \in 1..Len(children) :
                   LET c == children[i]
                   IN  /\ c.nodeName \in Range(g.listing)
                       /\ c._fileName = self._fileName
                       /\ c.iconColor = self.iconColor
                       /\ g.items[c.nodeName].type = "Array" =>
                              c.cls = "ZarrArrayRti" /\ c._zarrArray = g.items[c.nodeName]
                       /\ g.items[c.nodeName].type = "Group" =>
                              /\ c.cls = "ZarrGroupRti"
                              /\ ~c._isRoot
                              /\ c._zarrGroup = g.items[c.nodeName]

\* the store lists the keys in descending order; an array and a group come back
\* ascending, the unknown item is left out
C3_Witness ==
    /\ called = "_fetchAllChildren"
    /\ AllReadable(self._zarrGroup)
    /\ self._zarrGroup.listing = <<"t", "lon", "T">>
    /\ self._zarrGroup.items["lon"] = OtherItem
    /\ Len(ret.value) = 2
    /\ ret.value[1].nodeName = "T" /\ ret.value[1].cls = "ZarrArrayRti"
    /\ ret.value[2].nodeName = "t" /\ ret.value[2].cls = "ZarrGroupRti"

\* C4: _closeResources only clears resources for root RTIs: on a non-root group
\* RTI it leaves the zarr group reference unchanged, on a root RTI it sets the
\* reference to None.
C4_CloseOnlyClearsRoot ==
    lastCall = "close" =>
        IF prev._isRoot
        THEN self._zarrGroup = NoGroup
        ELSE self._zarrGroup = prev._zarrGroup

\* C5: on a non-root ZarrGroupRti constructed with a zarr group, whenever the
\* most recent resource call was _openResources the group reference is the group
\* it was constructed with, and _fetchAllChildren enumerates that group's members.
C5_NonRootKeepsGroup ==
    (~self._isRoot /\ ctorGroup # NoGroup /\ lastCall = "open") =>
        /\ self._zarrGroup = ctorGroup
        /\ fetched =>
               ret = fetchAllChildren([self EXCEPT !._zarrGroup = ctorGroup])

FillValueSet(arr) ==
    /\ arr.hasFill
    /\ arr.fill_value # PyNone
    /\ ~(arr.fill_value.t \in {"int", "bool"} /\ arr.fill_value.n = 0)

\* v is the value of the first of `keys` that is an attribute of arr
IsFirstPresent(keys, arr, v) ==
    \E i \in 1..Len(keys) :
        /\ keys[i] \in DOMAIN arr.attrs
        /\ \A j \in 1..(i - 1) : keys[j] \notin DOMAIN arr.attrs
        /\ v = arr.attrs[keys[i]]

NonePresent(keys, arr) == \A i \in 1..Len(keys) : keys[i] \notin DOMAIN arr.attrs

\* C7 (as stated): zarrArrayMissingValue returns the fill_value when it is set
\* and not 0, otherwise the first present of the six attribute names, and
\* returns None exactly when the fill_value is absent, None or 0 and none of
\* the six names is an attribute.
C7_MissingValue_Original ==
    called = "zarrArrayMissingValue" =>
        /\ FillValueSet(zarrArray) => ret.value = zarrArray.fill_value
        /\ (~FillValueSet(zarrArray) /\ ~NonePresent(MissingKeys, zarrArray)) =>
               IsFirstPresent(MissingKeys, zarrArray, ret.value)
        /\ ret.value = PyNone <=>
               (~FillValueSet(zarrArray) /\ NonePresent(MissingKeys, zarrArray))

\* C7 (amended): as above, but None is returned exactly when the fill_value is
\* absent, None or 0 and either none of the six names is an attribute or the
\* first one present holds None.
C7_MissingValue ==
    called = "zarrArrayMissingValue" =>
        /\ FillValueSet(zarrArray) => ret.value = zarrArray.fill_value
        /\ (~FillValueSet(zarrArray) /\ ~NonePresent(MissingKeys, zarrArray)) =>
               IsFirstPresent(MissingKeys, zarrArray, ret.value)
        /\ ret.value = PyNone <=>
               /\ ~FillValueSet(zarrArray)
               /\ \/ NonePresent(MissingKeys, zarrArray)
                  \/ IsFirstPresent(MissingKeys, zarrArray, PyNone)

\* a fill_value of 0 is skipped and a lower-priority attribute wins over a later one
C7_Witness ==
    /\ called = "zarrArrayMissingValue"
    /\ zarrArray.hasFill
    /\ zarrArray.fill_value = PyInt(0)
    /\ DOMAIN zarrArray.attrs = {"FillValue", "fill_value"}
    /\ zarrArray.attrs["FillValue"] = PyInt(-1)
    /\ zarrArray.attrs["fill_value"] = PyNone
    /\ ret.value = PyInt(-1)

\* C8 (as stated): zarrArrayUnit returns str(attrs[k]) for the first present of
\* the six unit names, the empty string exactly when none of them is an
\* attribute, and always a string.
C8_Unit_Original ==
    called = "zarrArrayUnit" =>
        /\ ret.value.t = "str"
        /\ ~NonePresent(UnitKeys, zarrArray) =>
               \E v \in UnitValues :
                   IsFirstPresent(UnitKeys, zarrArray, v) /\ ret.value.s = PyStr(v)
        /\ ret.value.s = "" <=> NonePresent(UnitKeys, zarrArray)

\* C8 (amended): as above, but the empty string is returned exactly when none
\* of the six names is an attribute or the first one present has an empty str().
C8_Unit ==
    called = "zarrArrayUnit" =>
        /\ ret.value.t = "str"
        /\ ~NonePresent(UnitKeys, zarrArray) =>
               \E v \in UnitValues :
                   IsFirstPresent(UnitKeys, zarrArray, v) /\ ret.value.s = PyStr(v)
        /\ ret.value.s = "" <=>
               \/ NonePresent(UnitKeys, zarrArray)
               \/ IsFirstPresent(UnitKeys, zarrArray, PyString(""))

\* `units` wins over the lower-priority `UNITS`, and a non-string is converted
C8_Witness ==
    /\ called = "zarrArrayUnit"
    /\ DOMAIN zarrArray.attrs = {"units", "UNITS"}
    /\ zarrArray.attrs["units"] = PyInt(9)
    /\ zarrArray.attrs["UNITS"] = PyString("m")
    /\ ret.value = PyString("9")

=============================================================================
